---- MODULE Spec2Model ----
(***************************************************************************)
(* Model of tumiki-mcp-http-adapter: the request-scoped process executor   *)
(* (internal/process/executor.go, Executor.Execute) together with the      *)
(* operating-system objects it drives: the child process, its three pipes, *)
(* the context watcher installed by exec.CommandContext and the goroutine  *)
(* that copies the child's standard error into stderrBuf.                  *)
(***************************************************************************)
EXTENDS Naturals, Sequences, FiniteSets

\* ------------------------------------------------------------------ bounds

\* Capacity, in bytes, of each OS pipe (64 KiB on Linux, scaled down).
PipeCap == 1

\* Longest request body handed to Execute.
MaxInput == 2

\* Longest byte sequence a writer child puts on its standard output.
MaxOut == 3

\* bufio.MaxScanTokenSize (64 KiB), scaled down: the scanner buffer's limit.
MaxScanTokenSize == 3

\* Most words in the --stdio command line: the command and its arguments.
MaxParts == 5

\* Most requests the server accepts in one run.
MaxRequests == 3

\* make(chan error, 1)
ErrChanCap == 1

\* ShutdownTimeout = 5 * time.Second, counted in seconds
ShutdownTimeout == 5

\* Longest --stdio string, in characters.
MaxCmdLen == 3

\* Longest KEY=VALUE definition, in characters, and most definitions in one
\* repeatable flag.
MaxPairLen == 3
MaxPairs == 2

\* ------------------------------------------------------------------- bytes

LF == "LF"
CR == "CR"
Byte == {"a", "b", CR, LF}

RECURSIVE ByteSeqs(_)
ByteSeqs(n) ==
    IF n = 0 THEN {<<>>}
    ELSE LET shorter == ByteSeqs(n - 1)
         IN  shorter \cup {Append(s, b) : s \in {t \in shorter : Len(t) = n - 1}, b \in Byte}

RECURSIVE Fill(_)
Fill(n) == IF n = 0 THEN <<>> ELSE Append(Fill(n - 1), "a")

Min(x, y) == IF x < y THEN x ELSE y

\* ---------------------------------------------------------- child programs
\* The command run by Execute is any program; its behaviour is a straight
\* line of system calls on its three standard streams.

Out(b)   == [op |-> "out", b |-> b]
Err(b)   == [op |-> "err", b |-> b]
ReadLine == [op |-> "readline", b |-> "a"]
ReadAll  == [op |-> "readall", b |-> "a"]
Cat      == [op |-> "cat", b |-> "a"]
Hang     == [op |-> "hang", b |-> "a"]
Fork     == [op |-> "fork", b |-> "a"]
Exit0    == [op |-> "exit", b |-> "0"]
Exit1    == [op |-> "exit", b |-> "1"]

Outs(s) == [i \in 1..Len(s) |-> Out(s[i])]
Errs(s) == [i \in 1..Len(s) |-> Err(s[i])]

\* prints s and exits (echo, printf, false, ...): never reads its stdin
Writers == {Outs(s) \o <<e>> : s \in ByteSeqs(MaxOut), e \in {Exit0, Exit1}}

\* cat: copies stdin to stdout until end of input, then exits 0
CatProg == <<Cat>>

\* sleep: neither reads nor writes, never exits on its own
SleepProg == <<Hang>>

\* writes more than a pipe holds to stderr, then reads its whole input and
\* answers with one line
NoisyProg == Errs(Fill(PipeCap + 1)) \o <<ReadAll, Out("a"), Out(LF), Exit0>>

\* reads the request line and answers with one line (sh -c 'read l && echo a')
ReplyProg == <<ReadLine, Out("a"), Out(LF), Exit0>>

\* complains on stderr and fails
FailProg == <<Err("a"), Exit1>>

\* a launcher (sh -c '... &', npx): leaves a descendant holding its streams
DaemonProg == <<Fork, Hang>>
LauncherProg == <<Fork, Out("a"), Out(LF), Exit0>>

\* reads the request, answers with one line, keeps printing more than a pipe
\* holds, exits 0 (sh -c 'cat >/dev/null; echo a; yes | head -c 100000')
ChattyProg == <<ReadAll, Out("a"), Out(LF)>> \o Outs(Fill(PipeCap + 1)) \o <<Exit0>>

ReaderProgs == {CatProg, NoisyProg, ReplyProg}
Programs == Writers \cup ReaderProgs \cup
            {SleepProg, FailProg, DaemonProg, LauncherProg, ChattyProg}

\* ------------------------------------------------------------------- state

VARIABLES
    pc,          \* position of Execute
    input,       \* Execute's input argument
    cmdOK,       \* whether the command can be started at all
    logger,      \* e.logger is not nil
    pipeFail,    \* which pipe acquisition fails (os.Pipe out of descriptors): 0 = none
    ctxDone,     \* ctx.Done() is closed (deadline passed or caller cancelled)
    prog, cpc,   \* the child's program and its position in it
    proc,        \* "none", "running", "zombie" (exited, not waited), "reaped"
    exitOK,      \* the child's exit status is success
    orphan,      \* a descendant of the child still holds the child's stream ends
    stdin,       \* bytes in the stdin pipe
    stdout,      \* bytes in the stdout pipe
    stderr,      \* bytes in the stderr pipe
    stdinOpen,   \* Execute's write end of stdin is open
    stdoutOpen,  \* Execute's read end of stdout is open
    stderrOpen,  \* Execute's read end of stderr is open
    wpos,        \* bytes of the current stdin.Write already accepted by the pipe
    drain,       \* the stderr goroutine: "none", "running", "done"
    stderrBuf,   \* bytes.Buffer filled by the stderr goroutine
    scanBuf,     \* the scanner's buffer
    scanEOF,     \* the scanner has seen end of stream
    response,    \* Execute's result
    err,         \* Execute's error: "none" or the wrapped message
    watch,       \* exec.Cmd's context watcher: "none", "armed", "fired", "released"
    watchErr,    \* the watcher reports ctx.Err() to Wait
    sent,        \* history: every byte Execute wrote to the child's stdin
    childOut,    \* history: every byte the child wrote to its stdout
    killedInCall,\* history: the watcher killed a running child before Execute returned
    bufRead,     \* history: "none", or the drain state when stderrBuf.String() ran
    logged,      \* the stderr text handed to the logger
    reqDone,     \* the parent context (r.Context()) is done: the client is gone
    deadline     \* the timer of context.WithTimeout has fired

\* The HTTP handler (internal/proxy/server.go, both versions in the tree).
VARIABLES
    version,     \* how handleMCP merges the arguments: "copy" or "append"
    cfg,         \* *Config, shared by all requests; cfg.ArgsLen is len(cfg.Args)
    backing,     \* the array behind cfg.Args, cap(cfg.Args) cells
    hpc,         \* per request: position of handleMCP
    header,      \* per request: r.Header, header name -> value ("" when absent)
    body,        \* per request: the bytes of r.Body
    envVars,     \* per request: local map envVars
    headerArgs,  \* per request: local slice headerArgs
    args,        \* per request: local slice args (shared array or own array)
    childArgs,   \* per request: argument list exec.CommandContext was given
    childEnv,    \* per request: what the child's getenv returns
    childStdin,  \* per request: bytes Execute was given plus the newline
    status,      \* per request: HTTP status written, 0 before
    result,      \* per request: what Execute returned, [err, out]
    contentType, \* per request: Content-Type of the response
    respBody,    \* per request: bytes written to the response
    spawns       \* per request: OS processes started for it

respVars == <<result, contentType, respBody, spawns>>

\* main (cmd/tumiki-mcp-http/main.go, the versions in the tree).
VARIABLES
    mainVersion, \* "lenient": parseEnvVars/parseMapping without the '=' check;
                 \* "strict": parseKeyValuePairs
    stdioCmd,    \* the --stdio flag, a sequence of characters
    flagKind,    \* the repeatable flag given: "env", "header-env", "header-arg"
    pairs,       \* its values, each a sequence of characters
    boot,        \* "flags", then "exit" (os.Exit(1)), "fatal" (log.Fatal) or "serving"
    cmdParts,    \* parseStdioCommand(stdioCmd)
    kv           \* what parsing pairs returned: [err, map]

mainVars == <<mainVersion, stdioCmd, flagKind, pairs, boot, cmdParts, kv>>

\* The header mapper called by itself.
VARIABLES
    phHeaders,    \* headers: header name -> value ("" when absent)
    phEnvMapping, \* envMapping
    phArgMapping, \* argMapping
    phDone,       \* the call has returned
    phEnv,        \* returned envVars
    phArgs        \* returned args

mapperVars == <<phHeaders, phEnvMapping, phArgMapping, phDone, phEnv, phArgs>>

\* Server.Start and the http.Server it drives.
VARIABLES
    startCtx,     \* "live" or "cancelled": the ctx given to Start
    listener,     \* "none", "open", "closed", "failed": what ListenAndServe did;
                  \* "reported" once its error has been sent
    inShutdown,   \* http.Server: Shutdown has been called
    errChan,      \* errChan, buffered for one error
    startPc,      \* Start: "select", "shutdown" (inside Shutdown), "returned"
    startErr,     \* what Start returned
    accepted,     \* requests accepted so far
    inflight,     \* requests accepted and not finished
    graceClock    \* seconds since shutdownCtx was made

lifecycleVars == <<startCtx, listener, inShutdown, errChan, startPc, startErr,
                   accepted, inflight, graceClock>>

handlerVars == <<version, cfg, backing, hpc, header, body, envVars, headerArgs, args,
                 childArgs, childEnv, childStdin, status, respVars>>

\* everything outside Execute
serverVars == <<handlerVars, mainVars, mapperVars, lifecycleVars>>

vars == <<pc, input, cmdOK, logger, ctxDone, prog, cpc, proc, exitOK, orphan,
          stdin, stdout, stderr, stdinOpen, stdoutOpen, stderrOpen, wpos,
          drain, stderrBuf, scanBuf, scanEOF, response, err, watch, watchErr,
          sent, childOut, killedInCall, bufRead, logged, pipeFail, serverVars,
          reqDone, deadline>>

execVars  == <<pc, wpos, scanBuf, scanEOF, response, err, sent, bufRead, logged>>
childVars == <<prog, cpc, proc, exitOK, orphan, childOut>>
pipeVars  == <<stdin, stdout, stderr>>
fdVars    == <<stdinOpen, stdoutOpen, stderrOpen>>
drainVars == <<drain, stderrBuf>>
ctxVars   == <<ctxDone, watch, watchErr, killedInCall>>
inVars    == <<input, cmdOK, logger, pipeFail, serverVars>>
causeVars == <<reqDone, deadline>>
argVars   == <<inVars, causeVars>>

\* ---------------------------------------------------- the handler's inputs

Requests == {"r1", "r2"}
Headers == {"X-A", "X-B"}
Names == {"VAR1", "VAR2"}
ArgNames == {"k"}

\* the value a request puts in its headers and body
Token(r) == IF r = "r1" THEN "1" ELSE "2"

\* a variable the child does not have
Unset == "unset"

\* os.Environ() of the adapter: VAR1 is set, VAR2 is not
Environ == [n \in {"VAR1"} |-> "inherited"]

\* maps with keys in K and values in V
Maps(K, V) == UNION {[D -> V] : D \in SUBSET K}

\* the zero value of a string cell
Zero == ""

RECURSIVE Zeros(_)
Zeros(n) == IF n = 0 THEN <<>> ELSE <<Zero>> \o Zeros(n - 1)

\* the first n arguments of the --stdio command line
Base(n) == SubSeq(<<"b1", "b2", "b3", "b4", "b5", "b6", "b7">>, 1, n)

RECURSIVE GrowCap(_, _)
\* capacity of a []string that append grew from nil to n elements, one at a
\* time: 1, 2, 4, 8, ...
GrowCap(n, c) == IF c >= n THEN c ELSE GrowCap(n, 2 * c)

\* cap(cmdParts[1:]) for a command line of n words
ArgsCap(n) == GrowCap(n, 1) - 1

\* configurations with every --env and --header-env table, a bare command
EnvConfigs ==
    [Command : {"mcp"},
     ArgsLen : {0},
     DefaultEnv : Maps(Names, {"default"}),
     HeaderEnvMapping : Maps(Headers, Names),
     HeaderArgMapping : {<<>>}]

\* configurations with every command line and --header-arg table, with and
\* without one --header-env entry
ArgConfigs ==
    [Command : {"mcp"},
     ArgsLen : 0..(MaxParts - 1),
     DefaultEnv : {<<>>},
     HeaderEnvMapping : {<<>>, [x \in {"X-A"} |-> "VAR1"]},
     HeaderArgMapping : Maps(Headers, ArgNames)]

Configs == EnvConfigs \cup ArgConfigs

NoSlice == [shared |-> FALSE, len |-> 0, own |-> <<>>]

\* Execute has not returned
NoResult == [err |-> "pending", out |-> <<>>]

\* nothing has been written to the http.ResponseWriter
NoResponse ==
    /\ status = [r \in Requests |-> 0]
    /\ result = [r \in Requests |-> NoResult]
    /\ contentType = [r \in Requests |-> ""]
    /\ respBody = [r \in Requests |-> <<>>]
    /\ spawns = [r \in Requests |-> 0]

\* main is not modelled
MainOff ==
    /\ mainVersion = "strict" /\ stdioCmd = <<>> /\ flagKind = "env"
    /\ pairs = <<>> /\ boot = "off" /\ cmdParts = <<>>
    /\ kv = [err |-> FALSE, map |-> <<>>]

\* the header mapper is not called by itself
MapperOff ==
    /\ phHeaders = [h \in Headers |-> ""]
    /\ phEnvMapping = <<>> /\ phArgMapping = <<>>
    /\ phDone = TRUE /\ phEnv = <<>> /\ phArgs = <<>>

\* Start is not running
LifecycleOff ==
    /\ startCtx = "live" /\ listener = "none" /\ inShutdown = FALSE
    /\ errChan = <<>> /\ startPc = "off" /\ startErr = "pending"
    /\ accepted = 0 /\ inflight = 0 /\ graceClock = 0

\* No request is handled.
HandlerOff ==
    /\ version = "copy"
    /\ cfg = [Command |-> "mcp", ArgsLen |-> 0, DefaultEnv |-> <<>>,
              HeaderEnvMapping |-> <<>>, HeaderArgMapping |-> <<>>]
    /\ backing = <<>>
    /\ hpc = [r \in Requests |-> "idle"]
    /\ header = [r \in Requests |-> [h \in Headers |-> ""]]
    /\ body = [r \in Requests |-> <<>>]
    /\ envVars = [r \in Requests |-> <<>>]
    /\ headerArgs = [r \in Requests |-> <<>>]
    /\ args = [r \in Requests |-> NoSlice]
    /\ childArgs = [r \in Requests |-> <<>>]
    /\ childEnv = [r \in Requests |-> [n \in Names |-> Unset]]
    /\ childStdin = [r \in Requests |-> <<>>]
    /\ NoResponse

\* The handler is not running (the state of the Execute specifications).
ServerOff == HandlerOff /\ MainOff /\ MapperOff /\ LifecycleOff

\* Inputs for a child that never looks at its stdin: only the length matters.
PlainInputs == {Fill(n) : n \in 0..MaxInput}

Init ==
    /\ prog \in Programs
    /\ input \in (IF prog \in ReaderProgs THEN ByteSeqs(MaxInput) ELSE PlainInputs)
    /\ cmdOK \in (IF prog = SleepProg THEN BOOLEAN ELSE {TRUE})
    /\ logger \in (IF prog = FailProg THEN BOOLEAN ELSE {TRUE})
    /\ pipeFail \in (IF prog = SleepProg /\ cmdOK THEN 0..3 ELSE {0})
    /\ pc = "stdin_pipe"
    /\ ctxDone = FALSE
    /\ cpc = 1
    /\ proc = "none"
    /\ exitOK = FALSE
    /\ orphan = FALSE
    /\ stdin = <<>> /\ stdout = <<>> /\ stderr = <<>>
    /\ stdinOpen = FALSE /\ stdoutOpen = FALSE /\ stderrOpen = FALSE
    /\ wpos = 0
    /\ drain = "none"
    /\ stderrBuf = <<>>
    /\ scanBuf = <<>>
    /\ scanEOF = FALSE
    /\ response = <<>>
    /\ err = "none"
    /\ watch = "none"
    /\ watchErr = FALSE
    /\ sent = <<>>
    /\ childOut = <<>>
    /\ killedInCall = FALSE
    /\ bufRead = "none"
    /\ logged = <<>>
    /\ reqDone = FALSE /\ deadline = FALSE
    /\ ServerOff

\* ---------------------------------------------------------- pipe predicates

\* Some process still holds the child's side of the pipes.
ChildEndsHeld == proc = "running" \/ orphan

\* write(2) on the stdin pipe fails with EPIPE: no reader is left.
BrokenPipe == ~ChildEndsHeld

\* ------------------------------------------------------- Execute, step by step

\* stdin, err := cmd.StdinPipe(): on failure Execute returns at once
StdinPipe ==
    /\ pc = "stdin_pipe"
    /\ IF pipeFail = 1
       THEN pc' = "done" /\ err' = "stdin pipe" /\ UNCHANGED stdinOpen
       ELSE pc' = "stdout_pipe" /\ stdinOpen' = TRUE /\ UNCHANGED err
    /\ UNCHANGED <<wpos, scanBuf, scanEOF, response, sent, bufRead, logged, childVars,
                   pipeVars, stdoutOpen, stderrOpen, drainVars, ctxVars, argVars>>

\* stdout, err := cmd.StdoutPipe(): on failure Execute returns at once
StdoutPipe ==
    /\ pc = "stdout_pipe"
    /\ IF pipeFail = 2
       THEN pc' = "done" /\ err' = "stdout pipe" /\ UNCHANGED stdoutOpen
       ELSE pc' = "stderr_pipe" /\ stdoutOpen' = TRUE /\ UNCHANGED err
    /\ UNCHANGED <<wpos, scanBuf, scanEOF, response, sent, bufRead, logged, childVars,
                   pipeVars, stdinOpen, stderrOpen, drainVars, ctxVars, argVars>>

\* stderr, err := cmd.StderrPipe(): on failure Execute returns at once
StderrPipe ==
    /\ pc = "stderr_pipe"
    /\ IF pipeFail = 3
       THEN pc' = "done" /\ err' = "stderr pipe" /\ UNCHANGED stderrOpen
       ELSE pc' = "start" /\ stderrOpen' = TRUE /\ UNCHANGED err
    /\ UNCHANGED <<wpos, scanBuf, scanEOF, response, sent, bufRead, logged, childVars,
                   pipeVars, stdinOpen, stdoutOpen, drainVars, ctxVars, argVars>>

\* Mutant: the error of cmd.Start() is not looked at.
Start_ErrorIgnored ==
    /\ pc = "start"
    /\ pc' = "go"
    /\ IF ctxDone \/ ~cmdOK
       THEN /\ err' = "process start"
            /\ stdinOpen' = FALSE /\ stdoutOpen' = FALSE /\ stderrOpen' = FALSE
            /\ UNCHANGED <<proc, watch>>
       ELSE /\ proc' = "running"
            /\ watch' = "armed"
            /\ UNCHANGED <<err, fdVars>>
    /\ UNCHANGED <<wpos, scanBuf, scanEOF, response, sent, bufRead, logged, prog, cpc,
                   exitOK, orphan, childOut, pipeVars, drainVars, ctxDone,
                   watchErr, killedInCall, argVars>>

\* cmd.Start(): refuses when ctx is already done, fails when the command cannot
\* be run; on failure os/exec closes the pipes it made.  On success the child
\* runs and the context watcher is armed.
Start ==
    /\ pc = "start"
    /\ IF ctxDone \/ ~cmdOK
       THEN /\ pc' = "done"
            /\ err' = "process start"
            /\ stdinOpen' = FALSE /\ stdoutOpen' = FALSE /\ stderrOpen' = FALSE
            /\ UNCHANGED <<proc, watch>>
       ELSE /\ pc' = "go"
            /\ proc' = "running"
            /\ watch' = "armed"
            /\ UNCHANGED <<err, fdVars>>
    /\ UNCHANGED <<wpos, scanBuf, scanEOF, response, sent, bufRead, logged, prog, cpc,
                   exitOK, orphan, childOut, pipeVars, drainVars, ctxDone,
                   watchErr, killedInCall, argVars>>

\* Mutant: the goroutine is never started.
SpawnDrain_Omitted ==
    /\ pc = "go"
    /\ pc' = "write_input"
    /\ UNCHANGED <<wpos, scanBuf, scanEOF, response, err, sent, bufRead, logged, childVars,
                   pipeVars, fdVars, drainVars, ctxVars, argVars>>

\* go func() { io.Copy(&stderrBuf, stderr) }()
SpawnDrain ==
    /\ pc = "go"
    /\ pc' = "write_input"
    /\ drain' = "running"
    /\ UNCHANGED <<wpos, scanBuf, scanEOF, response, err, sent, bufRead, logged, childVars,
                   pipeVars, fdVars, stderrBuf, ctxVars, argVars>>

\* One write(2) of a blocked-or-not stdin.Write(data): an empty write succeeds
\* at once; otherwise EPIPE when no reader is left, else one more byte when
\* the pipe has room (it blocks when the pipe is full).
WriteStep(data, okPc, message) ==
    IF Len(data) = 0
    THEN /\ pc' = okPc
         /\ UNCHANGED <<wpos, err, sent, stdin>>
    ELSE IF BrokenPipe
    THEN /\ pc' = "done"
         /\ err' = message
         /\ UNCHANGED <<wpos, sent, stdin>>
    ELSE /\ Len(stdin) < PipeCap
         /\ stdin' = Append(stdin, data[wpos + 1])
         /\ sent' = Append(sent, data[wpos + 1])
         /\ IF wpos + 1 = Len(data)
            THEN pc' = okPc /\ wpos' = 0
            ELSE pc' = pc /\ wpos' = wpos + 1
         /\ UNCHANGED err

\* Mutant: the input is not sent, only the newline that follows it.
WriteInput_Omitted ==
    /\ pc = "write_input"
    /\ pc' = "write_nl"
    /\ UNCHANGED <<wpos, scanBuf, scanEOF, response, err, sent, bufRead, logged, childVars,
                   pipeVars, fdVars, drainVars, ctxVars, argVars>>

\* stdin.Write(input)
WriteInput ==
    /\ pc = "write_input"
    /\ WriteStep(input, "write_nl", "write to stdin")
    /\ UNCHANGED <<scanBuf, scanEOF, response, bufRead, logged, childVars, stdout, stderr,
                   fdVars, drainVars, ctxVars, argVars>>

\* stdin.Write([]byte("\n"))
WriteNewline ==
    /\ pc = "write_nl"
    /\ WriteStep(<<LF>>, "close_stdin", "write newline to stdin")
    /\ UNCHANGED <<scanBuf, scanEOF, response, bufRead, logged, childVars, stdout, stderr,
                   fdVars, drainVars, ctxVars, argVars>>

\* Mutant: stdin is left open.
CloseStdin_Omitted ==
    /\ pc = "close_stdin"
    /\ pc' = "scan"
    /\ UNCHANGED <<wpos, scanBuf, scanEOF, response, err, sent, bufRead, logged, childVars,
                   pipeVars, fdVars, drainVars, ctxVars, argVars>>

\* stdin.Close()
CloseStdin ==
    /\ pc = "close_stdin"
    /\ pc' = "scan"
    /\ stdinOpen' = FALSE
    /\ UNCHANGED <<wpos, scanBuf, scanEOF, response, err, sent, bufRead, logged, childVars,
                   pipeVars, stdoutOpen, stderrOpen, drainVars, ctxVars, argVars>>

\* ----------------------------------------------------------- bufio.Scanner

HasLF(data) == \E i \in 1..Len(data) : data[i] = LF

FirstLF(data) ==
    CHOOSE i \in 1..Len(data) : data[i] = LF /\ \A j \in 1..(i - 1) : data[j] # LF

\* bufio's dropCR: one trailing carriage return is not part of the line
dropCR(data) ==
    IF Len(data) > 0 /\ data[Len(data)] = CR
    THEN SubSeq(data, 1, Len(data) - 1)
    ELSE data

\* bufio.ScanLines finds a token in data: a line up to LF, or at end of stream
\* the rest of the data when there is any.
ScanLinesFound(data, atEOF) == HasLF(data) \/ (atEOF /\ Len(data) > 0)

\* Mutant: a split function that cuts at the newline and keeps the rest.
ScanLinesToken_KeepCR(data) ==
    IF HasLF(data)
    THEN SubSeq(data, 1, FirstLF(data) - 1)
    ELSE data

ScanLinesToken(data) ==
    IF HasLF(data)
    THEN dropCR(SubSeq(data, 1, FirstLF(data) - 1))
    ELSE dropCR(data)

\* How many bytes one read(2) of the stdout pipe hands to the scanner.
ReadSize == Min(Len(stdout), MaxScanTokenSize - Len(scanBuf))

\* scanner := bufio.NewScanner(stdout); if scanner.Scan() { response =
\* scanner.Bytes() }; if err := scanner.Err() ...: one round of Scan's loop.
Scan ==
    /\ pc = "scan"
    /\ IF ScanLinesFound(scanBuf, scanEOF)
       THEN /\ response' = ScanLinesToken(scanBuf)
            /\ pc' = "wait"
            /\ UNCHANGED <<scanBuf, scanEOF, err, stdout>>
       ELSE IF scanEOF
       THEN /\ pc' = "wait"
            /\ UNCHANGED <<scanBuf, scanEOF, response, err, stdout>>
       ELSE IF Len(scanBuf) >= MaxScanTokenSize
       THEN /\ pc' = "done"
            /\ err' = "read from stdout"
            /\ UNCHANGED <<scanBuf, scanEOF, response, stdout>>
       ELSE IF Len(stdout) > 0
       THEN /\ scanBuf' = scanBuf \o SubSeq(stdout, 1, ReadSize)
            /\ stdout' = SubSeq(stdout, ReadSize + 1, Len(stdout))
            /\ UNCHANGED <<pc, scanEOF, response, err>>
       ELSE /\ ~ChildEndsHeld
            /\ scanEOF' = TRUE
            /\ UNCHANGED <<pc, scanBuf, response, err, stdout>>
    /\ UNCHANGED <<wpos, sent, bufRead, logged, childVars, stdin, stderr, fdVars,
                   drainVars, ctxVars, argVars>>

\* cmd.Wait(), first half: c.Process.Wait() blocks until the child has exited
\* and reaps it.
WaitReap ==
    /\ pc = "wait"
    /\ proc = "zombie"
    /\ proc' = "reaped"
    /\ pc' = "wait_ctx"
    /\ UNCHANGED <<wpos, scanBuf, scanEOF, response, err, sent, bufRead, logged, prog, cpc,
                   exitOK, orphan, childOut, pipeVars, fdVars, drainVars, ctxVars,
                   argVars>>

\* Mutant: the exit status is not looked at.
WaitFinish_StatusIgnored ==
    /\ pc = "wait_ctx"
    /\ watch' = (IF watch = "armed" THEN "released" ELSE watch)
    /\ stdinOpen' = FALSE /\ stdoutOpen' = FALSE /\ stderrOpen' = FALSE
    /\ pc' = "done"
    /\ UNCHANGED <<wpos, scanBuf, scanEOF, response, err, sent, bufRead, logged, childVars,
                   pipeVars, drainVars, ctxDone, watchErr, killedInCall, argVars>>

\* cmd.Wait(), second half: takes the watcher's result, closes the parent's
\* pipe ends and returns the exit error, if any.
WaitFinish ==
    /\ pc = "wait_ctx"
    /\ watch' = (IF watch = "armed" THEN "released" ELSE watch)
    /\ stdinOpen' = FALSE /\ stdoutOpen' = FALSE /\ stderrOpen' = FALSE
    /\ pc' = (IF exitOK /\ ~watchErr THEN "done" ELSE "log")
    /\ UNCHANGED <<wpos, scanBuf, scanEOF, response, err, sent, bufRead, logged, childVars,
                   pipeVars, drainVars, ctxDone, watchErr, killedInCall, argVars>>

\* if e.logger != nil { e.logger.Error("Process failed", "stderr",
\* stderrBuf.String()) }; return nil, fmt.Errorf("process wait: %w", err)
LogStderr ==
    /\ pc = "log"
    /\ bufRead' = (IF logger THEN drain ELSE bufRead)
    /\ logged' = (IF logger THEN stderrBuf ELSE logged)
    /\ response' = <<>>
    /\ err' = "process wait"
    /\ pc' = "done"
    /\ UNCHANGED <<wpos, scanBuf, scanEOF, sent, childVars, pipeVars, fdVars,
                   drainVars, ctxVars, argVars>>

ExecuteStep ==
    \/ StdinPipe
    \/ StdoutPipe
    \/ StderrPipe
    \/ Start
    \/ SpawnDrain
    \/ WriteInput
    \/ WriteNewline
    \/ CloseStdin
    \/ Scan
    \/ WaitReap
    \/ WaitFinish
    \/ LogStderr

\* ------------------------------------------------- the stderr goroutine

\* io.Copy's loop: a read of the stderr pipe followed by stderrBuf.Write
DrainCopy ==
    /\ drain = "running"
    /\ stderrOpen
    /\ Len(stderr) > 0
    /\ stderrBuf' = stderrBuf \o stderr
    /\ stderr' = <<>>
    /\ UNCHANGED <<execVars, childVars, stdin, stdout, fdVars, drain, ctxVars, argVars>>

\* io.Copy returns: end of stream, or the read end was closed under it
DrainEnd ==
    /\ drain = "running"
    /\ ~stderrOpen \/ (Len(stderr) = 0 /\ ~ChildEndsHeld)
    /\ drain' = "done"
    /\ UNCHANGED <<execVars, childVars, pipeVars, fdVars, stderrBuf, ctxVars, argVars>>

DrainStep == DrainCopy \/ DrainEnd

\* ------------------------------------------------- the context and its watcher

\* ctx is context.WithTimeout(parent, ProcessTimeout): its timer fires, unless
\* ctx is done already, and ctx is done.
Timeout ==
    /\ ~ctxDone
    /\ ctxDone' = TRUE
    /\ deadline' = TRUE
    /\ UNCHANGED <<execVars, childVars, pipeVars, fdVars, drainVars, watch,
                   watchErr, killedInCall, inVars, reqDone>>

\* Mutant: ctx is not derived from the request's context.
Disconnect_NotPropagated ==
    /\ ~reqDone
    /\ reqDone' = TRUE
    /\ UNCHANGED <<execVars, childVars, pipeVars, fdVars, drainVars, ctxVars,
                   inVars, deadline>>

\* The parent context is cancelled (net/http does it when the client goes
\* away); a derived context is done with its parent.
Disconnect ==
    /\ ~reqDone
    /\ reqDone' = TRUE
    /\ ctxDone' = TRUE
    /\ UNCHANGED <<execVars, childVars, pipeVars, fdVars, drainVars, watch,
                   watchErr, killedInCall, inVars, deadline>>

\* exec.CommandContext's watcher: once ctx is done it calls Process.Kill.  A
\* running child dies; signalling a child that has already exited may or may
\* not be reported as a cancellation.
Kill ==
    /\ ctxDone
    /\ watch = "armed"
    /\ proc \in {"running", "zombie"}
    /\ watch' = "fired"
    /\ IF proc = "running"
       THEN /\ proc' = "zombie"
            /\ exitOK' = FALSE
            /\ watchErr' = TRUE
            /\ killedInCall' = (killedInCall \/ pc # "done")
       ELSE /\ watchErr' \in BOOLEAN
            /\ UNCHANGED <<proc, exitOK, killedInCall>>
    /\ UNCHANGED <<execVars, prog, cpc, orphan, childOut, pipeVars, fdVars,
                   drainVars, ctxDone, argVars>>

\* --------------------------------------------------------------- the child

Instr == prog[cpc]

ChildRuns == proc = "running" /\ cpc <= Len(prog)

ChildOut ==
    /\ ChildRuns
    /\ Instr.op = "out"
    /\ Len(stdout) < PipeCap
    /\ stdout' = Append(stdout, Instr.b)
    /\ childOut' = Append(childOut, Instr.b)
    /\ cpc' = cpc + 1
    /\ UNCHANGED <<execVars, prog, proc, exitOK, orphan, stdin, stderr, fdVars,
                   drainVars, ctxVars, argVars>>

ChildErr ==
    /\ ChildRuns
    /\ Instr.op = "err"
    /\ Len(stderr) < PipeCap
    /\ stderr' = Append(stderr, Instr.b)
    /\ cpc' = cpc + 1
    /\ UNCHANGED <<execVars, prog, proc, exitOK, orphan, childOut, stdin, stdout,
                   fdVars, drainVars, ctxVars, argVars>>

\* reads its stdin up to the end of a line, or to end of input
ChildReadLine ==
    /\ ChildRuns
    /\ Instr.op = "readline"
    /\ IF Len(stdin) > 0
       THEN /\ stdin' = Tail(stdin)
            /\ cpc' = (IF Head(stdin) = LF THEN cpc + 1 ELSE cpc)
       ELSE /\ ~stdinOpen
            /\ cpc' = cpc + 1
            /\ UNCHANGED stdin
    /\ UNCHANGED <<execVars, prog, proc, exitOK, orphan, childOut, stdout, stderr,
                   fdVars, drainVars, ctxVars, argVars>>

\* reads its stdin to the end of input
ChildReadAll ==
    /\ ChildRuns
    /\ Instr.op = "readall"
    /\ IF Len(stdin) > 0
       THEN /\ stdin' = Tail(stdin)
            /\ UNCHANGED cpc
       ELSE /\ ~stdinOpen
            /\ cpc' = cpc + 1
            /\ UNCHANGED stdin
    /\ UNCHANGED <<execVars, prog, proc, exitOK, orphan, childOut, stdout, stderr,
                   fdVars, drainVars, ctxVars, argVars>>

\* cat: copies a byte from stdin to stdout (taking it only when stdout has
\* room for it); exits 0 at end of input
ChildCat ==
    /\ ChildRuns
    /\ Instr.op = "cat"
    /\ IF Len(stdin) > 0
       THEN /\ Len(stdout) < PipeCap
            /\ stdin' = Tail(stdin)
            /\ stdout' = Append(stdout, Head(stdin))
            /\ childOut' = Append(childOut, Head(stdin))
            /\ UNCHANGED <<proc, exitOK>>
       ELSE /\ ~stdinOpen
            /\ proc' = "zombie"
            /\ exitOK' = TRUE
            /\ UNCHANGED <<stdin, stdout, childOut>>
    /\ UNCHANGED <<execVars, prog, cpc, orphan, stderr, fdVars, drainVars, ctxVars,
                   argVars>>

ChildExit ==
    /\ ChildRuns
    /\ Instr.op = "exit"
    /\ proc' = "zombie"
    /\ exitOK' = (Instr.b = "0")
    /\ UNCHANGED <<execVars, prog, cpc, orphan, childOut, pipeVars, fdVars,
                   drainVars, ctxVars, argVars>>

\* starts a descendant that inherits the three streams
ChildFork ==
    /\ ChildRuns
    /\ Instr.op = "fork"
    /\ orphan' = TRUE
    /\ cpc' = cpc + 1
    /\ UNCHANGED <<execVars, prog, proc, exitOK, childOut, pipeVars, fdVars,
                   drainVars, ctxVars, argVars>>

\* the descendant ends, whenever it pleases
OrphanExit ==
    /\ orphan
    /\ orphan' = FALSE
    /\ UNCHANGED <<execVars, prog, cpc, proc, exitOK, childOut, pipeVars, fdVars,
                   drainVars, ctxVars, argVars>>

ChildStep ==
    \/ ChildOut
    \/ ChildErr
    \/ ChildReadLine
    \/ ChildReadAll
    \/ ChildCat
    \/ ChildExit
    \/ ChildFork

\* ------------------------------------------------------------ specifications

Next ==
    \/ ExecuteStep
    \/ DrainStep
    \/ ChildStep
    \/ OrphanExit
    \/ Timeout
    \/ Kill

Spec == Init /\ [][Next]_vars

\* Goroutines and processes that can run do run; the deadline and the end of
\* a descendant are not promised.
FairSpec ==
    /\ Spec
    /\ WF_vars(ExecuteStep)
    /\ WF_vars(DrainStep)
    /\ WF_vars(ChildStep)
    /\ WF_vars(Kill)

\* echo: prints one line that fits in the pipe and exits 0
EchoProg == Outs(Fill(PipeCap - 1)) \o <<Out(LF), Exit0>>

\* Execute under the handler's context, which ends with the request's: one
\* program of each kind, inputs of at most one byte.
CtxPrograms == (Programs \ Writers) \cup {EchoProg}

CtxInit == Init /\ prog \in CtxPrograms /\ Len(input) <= 1

CtxNext == Next \/ Disconnect

CtxSpec ==
    /\ CtxInit /\ [][CtxNext]_vars
    /\ WF_vars(ExecuteStep)
    /\ WF_vars(DrainStep)
    /\ WF_vars(ChildStep)
    /\ WF_vars(Kill)

\* ------------------------------------------------------------- the handler

\* cfg.Args: the first len(cfg.Args) cells of its array
Args == SubSeq(backing, 1, cfg.ArgsLen)

RECURSIVE Perms(_)
\* the orders in which a range over a map can visit the keys S
Perms(S) ==
    IF S = {} THEN {<<>>}
    ELSE UNION {{<<x>> \o p : p \in Perms(S \ {x})} : x \in S}

\* Mutant: a mapped header counts even when its value is empty.
Present_KeepEmpty(h, mapping) == DOMAIN mapping

\* headers.Get(headerName) != ""
Present(h, mapping) == {x \in DOMAIN mapping : h[x] # ""}

\* parseHeaders / ParseCustomHeaders, the env loop: envVars[envName] = value
\* for every mapped header that is present; when two headers map to one
\* name the one visited last stays
ParseEnv(h, envMapping) ==
    LET names == {envMapping[x] : x \in Present(h, envMapping)}
    IN  {f \in [names -> {h[x] : x \in Headers}] :
            \A n \in names : \E x \in Present(h, envMapping) :
                envMapping[x] = n /\ f[n] = h[x]}

RECURSIVE ArgPairs_FlagOnly(_, _, _)
\* Mutant: only the flag is appended.
ArgPairs_FlagOnly(order, h, argMapping) ==
    IF order = <<>> THEN <<>>
    ELSE <<"--" \o argMapping[Head(order)]>>
         \o ArgPairs_FlagOnly(Tail(order), h, argMapping)

RECURSIVE ArgPairs(_, _, _)
\* args = append(args, "--"+argName, value) for the headers in the order given
ArgPairs(order, h, argMapping) ==
    IF order = <<>> THEN <<>>
    ELSE <<"--" \o argMapping[Head(order)], h[Head(order)]>>
         \o ArgPairs(Tail(order), h, argMapping)

\* parseHeaders / ParseCustomHeaders, the arg loop, in any map order
ParseArgs(h, argMapping) ==
    {ArgPairs(order, h, argMapping) : order \in Perms(Present(h, argMapping))}

\* Mutant: the defaults are copied over the header values.
Overlay_DefaultsLast(defaults, headerEnv) ==
    [n \in DOMAIN defaults \cup DOMAIN headerEnv |->
        IF n \in DOMAIN defaults THEN defaults[n] ELSE headerEnv[n]]

\* for k, v := range headerEnv { envVars[k] = v } over the copy of DefaultEnv
Overlay(defaults, headerEnv) ==
    [n \in DOMAIN defaults \cup DOMAIN headerEnv |->
        IF n \in DOMAIN headerEnv THEN headerEnv[n] ELSE defaults[n]]

\* a map as "k=v" entries, in the order given
Entries(order, m) == [i \in 1..Len(order) |-> <<order[i], m[order[i]]>>]

\* Executor.envSlice(): the entries of e.env in any map order
EnvSlices(m) == {Entries(order, m) : order \in Perms(DOMAIN m)}

\* cmd.Environ(): the adapter's own environment
EnvironList == Entries(<<"VAR1">>, Environ)

\* the value the child finds for n in cmd.Env: os/exec keeps the last entry
\* of a name
Getenv(env, n) ==
    LET at == {i \in 1..Len(env) : env[i][1] = n}
    IN  IF at = {} THEN Unset
        ELSE env[CHOOSE i \in at : \A j \in at : j <= i][2]

\* the elements of a request's args slice
View(r) == IF args[r].shared THEN SubSeq(backing, 1, args[r].len) ELSE args[r].own

reqVars == <<header, body>>
cfgVars == <<version, cfg>>

\* a request arrives at /mcp
Receive(r) ==
    /\ hpc[r] = "idle"
    /\ \E h \in [Headers -> {"", Token(r)}] : header' = [header EXCEPT ![r] = h]
    /\ body' = [body EXCEPT ![r] = <<Token(r)>>]
    /\ hpc' = [hpc EXCEPT ![r] = "headers"]
    /\ UNCHANGED <<cfgVars, backing, envVars, headerArgs, args, childArgs, childEnv,
                   childStdin, status, respVars>>

\* handleMCP, step 1: envVars := copy of cfg.DefaultEnv; parse the headers;
\* header values go over the defaults
MergeEnv(r) ==
    /\ hpc[r] = "headers"
    /\ \E headerEnv \in ParseEnv(header[r], cfg.HeaderEnvMapping) :
          envVars' = [envVars EXCEPT ![r] = Overlay(cfg.DefaultEnv, headerEnv)]
    /\ \E ha \in ParseArgs(header[r], cfg.HeaderArgMapping) :
          headerArgs' = [headerArgs EXCEPT ![r] = ha]
    /\ hpc' = [hpc EXCEPT ![r] = "args"]
    /\ UNCHANGED <<cfgVars, backing, reqVars, args, childArgs, childEnv, childStdin,
                   status, respVars>>

\* handleMCP, step 2.  "copy": a new array holds cfg.Args and then headerArgs.
\* "append": append(s.cfg.Args, headerArgs...) writes into the array of
\* cfg.Args when it has room and takes a new array otherwise.
MergeArgs(r) ==
    /\ hpc[r] = "args"
    /\ IF version = "append" /\ cfg.ArgsLen + Len(headerArgs[r]) <= Len(backing)
       THEN /\ args' = [args EXCEPT ![r] = [shared |-> TRUE, len |-> cfg.ArgsLen,
                                             own |-> <<>>]]
            /\ hpc' = [hpc EXCEPT ![r] = IF headerArgs[r] = <<>> THEN "body"
                                                                 ELSE "append"]
       ELSE /\ args' = [args EXCEPT ![r] =
                            [shared |-> FALSE,
                             len |-> cfg.ArgsLen + Len(headerArgs[r]),
                             own |-> Args \o headerArgs[r]]]
            /\ hpc' = [hpc EXCEPT ![r] = "body"]
    /\ UNCHANGED <<cfgVars, backing, reqVars, envVars, headerArgs, childArgs,
                   childEnv, childStdin, status, respVars>>

\* append in place: one element is stored behind the elements already there
AppendCell(r) ==
    /\ hpc[r] = "append"
    /\ backing' = [backing EXCEPT ![args[r].len + 1] =
                       headerArgs[r][args[r].len - cfg.ArgsLen + 1]]
    /\ args' = [args EXCEPT ![r].len = @ + 1]
    /\ hpc' = [hpc EXCEPT ![r] =
                  IF args[r].len + 1 = cfg.ArgsLen + Len(headerArgs[r]) THEN "body"
                                                                         ELSE "append"]
    /\ UNCHANGED <<cfgVars, reqVars, envVars, headerArgs, childArgs, childEnv,
                   childStdin, status, respVars>>

\* http.Error(w, msg, code): plain text, the message and a newline
PlainText(msg) == <<msg, LF>>

\* Mutant: the handler goes on after answering 400.
ReadBody_NoReturn(r) ==
    /\ hpc[r] = "body"
    /\ \E ok \in BOOLEAN :
          IF ok THEN /\ hpc' = [hpc EXCEPT ![r] = "execute"]
                     /\ UNCHANGED <<status, contentType, respBody>>
                ELSE /\ hpc' = [hpc EXCEPT ![r] = "execute"]
                     /\ status' = [status EXCEPT ![r] = 400]
                     /\ contentType' = [contentType EXCEPT ![r] = "text/plain; charset=utf-8"]
                     /\ respBody' = [respBody EXCEPT ![r] = PlainText("Failed to read body")]
    /\ UNCHANGED <<cfgVars, backing, reqVars, envVars, headerArgs, args, childArgs,
                   childEnv, childStdin, result, spawns>>

\* handleMCP, step 3: io.ReadAll(r.Body); 400 when it fails
ReadBody(r) ==
    /\ hpc[r] = "body"
    /\ \E ok \in BOOLEAN :
          IF ok THEN /\ hpc' = [hpc EXCEPT ![r] = "execute"]
                     /\ UNCHANGED <<status, contentType, respBody>>
                ELSE /\ hpc' = [hpc EXCEPT ![r] = "done"]
                     /\ status' = [status EXCEPT ![r] = 400]
                     /\ contentType' = [contentType EXCEPT ![r] = "text/plain; charset=utf-8"]
                     /\ respBody' = [respBody EXCEPT ![r] = PlainText("Failed to read body")]
    /\ UNCHANGED <<cfgVars, backing, reqVars, envVars, headerArgs, args, childArgs,
                   childEnv, childStdin, result, spawns>>

\* the errors Execute returns, by the step that failed
SetupErrors == {"stdin pipe", "stdout pipe", "stderr pipe"}
StartErrors == {"process start"}
IOErrors == {"write to stdin", "write newline to stdin", "read from stdout"}
WaitErrors == {"process wait"}
ExecuteErrors == SetupErrors \cup StartErrors \cup IOErrors \cup WaitErrors

\* what Execute can return: an error and no output, or a line of output
ExecuteResults ==
    [err : ExecuteErrors, out : {<<>>}] \cup [err : {"none"}, out : {<<>>, <<"a">>}]

\* Mutant: a second process is started after a failure.
Started_Retry(res) ==
    IF res.err \in SetupErrors \cup StartErrors THEN 0
    ELSE IF res.err = "none" THEN 1 ELSE 2

\* OS processes one Execute call starts: cmd.Start() runs once, after the
\* pipes were acquired
Started(res) == IF res.err \in SetupErrors \cup StartErrors THEN 0 ELSE 1

\* Mutant: the error text is sent to the client.
ErrorBody_Leaks(res) == PlainText(res.err)

\* http.Error(w, "Process execution failed", http.StatusInternalServerError)
ErrorBody(res) == PlainText("Process execution failed")

\* Mutant: the error of Execute is not looked at.
StatusFor_AlwaysOK(res) == 200

\* if err != nil { ... 500 } else { ... 200 }
StatusFor(res) == IF res.err = "none" THEN 200 ELSE 500

\* handleMCP, steps 4 and 5: NewExecutor(cfg.Command, args, envVars, logger),
\* Execute(ctx, body): the command gets the elements of args as they are now,
\* the environment cmd.Environ() followed by envSlice(), and body and a
\* newline on stdin; 500 when Execute fails, else 200
ExecuteCall(r) ==
    /\ hpc[r] = "execute"
    /\ childArgs' = [childArgs EXCEPT ![r] = View(r)]
    /\ \E es \in EnvSlices(envVars[r]) :
          childEnv' = [childEnv EXCEPT ![r] =
                          [n \in Names |-> Getenv(EnvironList \o es, n)]]
    /\ childStdin' = [childStdin EXCEPT ![r] = body[r] \o <<LF>>]
    /\ \E res \in ExecuteResults :
          /\ result' = [result EXCEPT ![r] = res]
          /\ spawns' = [spawns EXCEPT ![r] = @ + Started(res)]
          /\ status' = [status EXCEPT ![r] = StatusFor(res)]
          /\ contentType' = [contentType EXCEPT ![r] =
                                IF res.err = "none" THEN "application/json"
                                ELSE "text/plain; charset=utf-8"]
          /\ respBody' = [respBody EXCEPT ![r] =
                             IF res.err = "none" THEN res.out ELSE ErrorBody(res)]
    /\ hpc' = [hpc EXCEPT ![r] = "done"]
    /\ UNCHANGED <<cfgVars, backing, reqVars, envVars, headerArgs, args>>

\* No Execute call of the first specifications is in progress.
ExecuteOff ==
    /\ prog = SleepProg /\ input = <<>> /\ cmdOK = TRUE /\ logger = TRUE
    /\ pipeFail = 0 /\ pc = "off" /\ ctxDone = FALSE /\ cpc = 1
    /\ proc = "none" /\ exitOK = FALSE /\ orphan = FALSE
    /\ stdin = <<>> /\ stdout = <<>> /\ stderr = <<>>
    /\ stdinOpen = FALSE /\ stdoutOpen = FALSE /\ stderrOpen = FALSE
    /\ wpos = 0 /\ drain = "none" /\ stderrBuf = <<>> /\ scanBuf = <<>>
    /\ scanEOF = FALSE /\ response = <<>> /\ err = "none" /\ watch = "none"
    /\ watchErr = FALSE /\ sent = <<>> /\ childOut = <<>>
    /\ killedInCall = FALSE /\ bufRead = "none" /\ logged = <<>>
    /\ reqDone = FALSE /\ deadline = FALSE

executeVars == <<execVars, childVars, pipeVars, fdVars, drainVars, ctxVars,
                 input, cmdOK, logger, pipeFail, causeVars>>

\* NewServer(cfg, logger) with a Config built by main: cfg.Args is
\* cmdParts[1:], a slice of the array parseStdioCommand filled by append
ServerInit ==
    /\ ExecuteOff /\ MainOff /\ MapperOff /\ LifecycleOff
    /\ version \in {"copy", "append"}
    /\ cfg \in Configs
    /\ backing = Base(cfg.ArgsLen) \o Zeros(ArgsCap(cfg.ArgsLen + 1) - cfg.ArgsLen)
    /\ hpc = [r \in Requests |-> "idle"]
    /\ header = [r \in Requests |-> [h \in Headers |-> ""]]
    /\ body = [r \in Requests |-> <<>>]
    /\ envVars = [r \in Requests |-> <<>>]
    /\ headerArgs = [r \in Requests |-> <<>>]
    /\ args = [r \in Requests |-> NoSlice]
    /\ childArgs = [r \in Requests |-> <<>>]
    /\ childEnv = [r \in Requests |-> [n \in Names |-> Unset]]
    /\ childStdin = [r \in Requests |-> <<>>]
    /\ NoResponse

\* net/http runs handleMCP in one goroutine per request
ServerNext ==
    \E r \in Requests :
        /\ \/ Receive(r)
           \/ MergeEnv(r)
           \/ MergeArgs(r)
           \/ AppendCell(r)
           \/ ReadBody(r)
           \/ ExecuteCall(r)
        /\ UNCHANGED <<executeVars, mainVars, mapperVars, lifecycleVars>>

ServerSpec == ServerInit /\ [][ServerNext]_vars

\* ------------------------------------------------------------------ claims

Returned == pc = "done"
Succeeded == pc = "done" /\ err = "none"
ChildStarted == proc # "none"

\* C1: whenever Execute returns after having started the child, the child has
\* been reaped and Execute's ends of the three pipes are closed, on every exit
\* path.
C1_TornDownAtReturn ==
    (Returned /\ ChildStarted) =>
        (proc = "reaped" /\ ~stdinOpen /\ ~stdoutOpen /\ ~stderrOpen)

\* C2: once Execute has returned, the stderr goroutine it started has been
\* joined: it is no longer running.
C2_DrainJoinedAtReturn ==
    (Returned /\ drain # "none") => drain = "done"

\* C3: stderrBuf is read by Execute only after the stderr goroutine has
\* finished.
C3_BufferReadAfterDrain ==
    bufRead \in {"none", "done"}

\* C4: a child killed because the context ended during the call has been
\* reaped by the time Execute returns.
C4_KilledChildReaped ==
    (Returned /\ killedInCall) => proc = "reaped"

\* C5: when the deadline passes before the child has exited on its own (the
\* watcher finds it running and kills it), Execute eventually returns, and
\* returns an error.
C5_DeadlineYieldsError ==
    killedInCall ~> (Returned /\ err # "none")

\* C6: whatever the child does, once the context is done Execute eventually
\* returns.
C6_ReturnsAfterDeadline ==
    ctxDone ~> Returned

\* C7: a child that floods stderr before it reads its input, then answers one
\* line and exits 0, makes Execute succeed with that line, unless the context
\* ends first: no deadline is needed to get there.
C7_NoisyChildSucceeds ==
    (prog = NoisyProg) => <>(ctxDone \/ (Succeeded /\ response = <<"a">>))

C7_Witness ==
    /\ prog = NoisyProg
    /\ Succeeded
    /\ ~ctxDone
    /\ Len(stderrBuf) > PipeCap
    /\ response = <<"a">>

\* C8: the stderr goroutine is started after the process and before the
\* first byte goes to the child's stdin.
C8_DrainStartedBeforeWrite ==
    /\ drain # "none" => ChildStarted
    /\ Len(sent) > 0 => drain # "none"

C8_Witness ==
    /\ pc = "write_input"
    /\ drain = "running"
    /\ Len(sent) = 1

\* The child's output up to its first newline; all of it when there is none.
FirstLineOf(out) ==
    IF \E i \in 1..Len(out) : out[i] = LF
    THEN SubSeq(out, 1, (CHOOSE i \in 1..Len(out) :
                            out[i] = LF /\ \A j \in 1..(i - 1) : out[j] # LF) - 1)
    ELSE out

WithoutCR(line) ==
    IF Len(line) > 0 /\ line[Len(line)] = CR
    THEN SubSeq(line, 1, Len(line) - 1)
    ELSE line

\* C9 as stated: on success the result is the child's first line of output,
\* less its newline and nothing else.
C9_FirstLineExactly ==
    Succeeded => response = FirstLineOf(childOut)

\* C9 as amended: on success the result is the child's first line of output,
\* less its newline and less one carriage return in front of that newline
\* (or at the end of an output without newline).
C9_FirstLineWithoutLineEnd ==
    Succeeded => response = WithoutCR(FirstLineOf(childOut))

C9_Witness ==
    /\ Succeeded
    /\ childOut = <<"a", CR, LF>>
    /\ response = <<"a">>

IsPrefix(s, t) == Len(s) <= Len(t) /\ SubSeq(t, 1, Len(s)) = s

\* everything the child has written to its stderr: drained or still in the pipe
ChildStderr == stderrBuf \o stderr

\* the child ended by itself with a non-zero status
ChildFailed == proc \in {"zombie", "reaped"} /\ ~exitOK /\ ~killedInCall

\* the stderr text inside the error value Execute returns: "process wait: %w"
\* wraps the error of cmd.Wait() and nothing else
ErrorStderr == <<>>

Cause ==
    CASE err = "none" -> "none"
      [] err \in {"stdin pipe", "stdout pipe", "stderr pipe"} -> "pipe"
      [] err = "process start" -> (IF cmdOK THEN "context" ELSE "not found")
      [] err \in {"write to stdin", "write newline to stdin"} -> "broken pipe"
      [] err = "read from stdout" -> "token too long"
      [] err = "process wait" ->
            (IF ~exitOK THEN (IF killedInCall THEN "signal: killed" ELSE "exit status")
                        ELSE "context")
Outcome == <<err, Cause>>

\* the outcomes of calls whose child ran to its end and failed by itself
ProcessFailureOutcomes ==
    {<<"process wait", "exit status">>,
     <<"write to stdin", "broken pipe">>,
     <<"write newline to stdin", "broken pipe">>}

\* C12: a call that failed because the context ended and the child was killed
\* reports an outcome that no call with a child failing by itself reports.
C12_CancellationDistinct ==
    (Returned /\ killedInCall) => Outcome \notin ProcessFailureOutcomes

\* a child that failed by itself; the call reports a broken pipe
C12_ChildFailureBrokenPipe ==
    Returned /\ ChildFailed /\ ~ctxDone /\ Outcome = <<"write to stdin", "broken pipe">>

\* C13: when one of the three pipes cannot be had, Execute returns an error,
\* no child is started, and no pipe of the call is still open at the return.
C13_PipeFailureReleasesAll ==
    (Returned /\ err \in {"stdin pipe", "stdout pipe", "stderr pipe"}) =>
        (proc = "none" /\ ~stdinOpen /\ ~stdoutOpen /\ ~stderrOpen)

\* C14: when cmd.Start() fails Execute has returned with that error and has
\* done none of the later steps: no drain goroutine, no byte written, nothing
\* read from stdout, no child, no watcher, no wait, nothing logged.
C14_StartFailureStopsAll ==
    (err = "process start") =>
        /\ Returned
        /\ response = <<>>
        /\ drain = "none" /\ stderrBuf = <<>>
        /\ sent = <<>> /\ wpos = 0
        /\ scanBuf = <<>> /\ ~scanEOF
        /\ proc = "none" /\ watch = "none"
        /\ bufRead = "none" /\ logged = <<>>

C14_Witness ==
    Returned /\ ~cmdOK /\ err = "process start" /\ drain = "none" /\ sent = <<>>

\* Execute has gone past stdin.Close()
StdinDone == pc \in {"scan", "wait", "wait_ctx", "log"} \/ Succeeded

\* C15: what Execute has put on the child's stdin is always a prefix of the
\* input followed by one newline; the stream is closed only after all of it;
\* and stdout is read only after the input, the newline and the close.
C15_InputNewlineClose ==
    /\ IsPrefix(sent, input \o <<LF>>)
    /\ (ChildStarted /\ ~stdinOpen /\ err \notin {"write to stdin", "write newline to stdin"})
          => sent = input \o <<LF>>
    /\ (StdinDone \/ scanBuf # <<>> \/ scanEOF) => (sent = input \o <<LF>> /\ ~stdinOpen)

\* the empty input: cat gets one newline and then the end of its input
C15_Witness ==
    /\ prog = CatProg /\ input = <<>> /\ Succeeded
    /\ sent = <<LF>> /\ ~stdinOpen /\ childOut = <<LF>> /\ response = <<>>

\* C16: a child that prints a first line, then more, then exits 0 gets a call
\* that succeeds with the first line (unless the context ends first).
C16_ExtraOutputDropped ==
    (prog = ChattyProg) => <>(ctxDone \/ (Succeeded /\ response = <<"a">>))

\* ------------------------------------------------------ handler: the claims

\* handleMCP has called Execute for the request
Spawned(r) == status[r] \in {200, 500}

\* the non-empty values the request carries in headers mapped to variable n
HeaderValuesFor(r, n) ==
    {header[r][x] : x \in {y \in DOMAIN cfg.HeaderEnvMapping :
                              cfg.HeaderEnvMapping[y] = n /\ header[r][y] # ""}}

\* the values the precedence rule allows for variable n
Precedence(r, n) ==
    IF HeaderValuesFor(r, n) # {} THEN HeaderValuesFor(r, n)
    ELSE IF n \in DOMAIN cfg.DefaultEnv THEN {cfg.DefaultEnv[n]}
    ELSE IF n \in DOMAIN Environ THEN {Environ[n]}
    ELSE {Unset}

\* C17: the value the child sees for a variable is the header-derived value
\* when the request has a non-empty mapped header for it, else the configured
\* default, else the inherited value.
C17_EnvPrecedence ==
    \A r \in Requests : Spawned(r) =>
        \A n \in Names : childEnv[r][n] \in Precedence(r, n)

\* VAR1 is inherited, has a default and a mapped header: the header wins;
\* VAR2 has the default only
C17_Witness ==
    /\ Spawned("r1")
    /\ cfg.DefaultEnv = [n \in Names |-> "default"]
    /\ cfg.HeaderEnvMapping = [x \in {"X-A"} |-> "VAR1"]
    /\ header["r1"]["X-A"] = "1"
    /\ childEnv["r1"] = [n \in Names |-> IF n = "VAR1" THEN "1" ELSE "default"]

\* C18: the argument list handed to the child is the base arguments in their
\* order followed by all the header-derived arguments of the request.
C18_BaseThenHeaderArgs ==
    \A r \in Requests : Spawned(r) => childArgs[r] = Args \o headerArgs[r]

\* C19: no step of any request changes the shared Config or the array behind
\* cfg.Args.
C19_ConfigUnchanged == [][cfg' = cfg /\ backing' = backing]_vars

\* the values of the other requests
Foreign(r) == {Token(q) : q \in Requests \ {r}}

\* C20: the child of a request gets the stdin bytes of that request, and no
\* header value or input byte of another request is in its argument list, its
\* environment or its stdin.
C20_NoCrossTalk ==
    \A r \in Requests : Spawned(r) =>
        /\ childStdin[r] = <<Token(r), LF>>
        /\ \A i \in 1..Len(childStdin[r]) : childStdin[r][i] \notin Foreign(r)
        /\ \A n \in Names : childEnv[r][n] \notin Foreign(r)
        /\ \A i \in 1..Len(childArgs[r]) : childArgs[r][i] \notin Foreign(r)

\* --------------------------------------------------- handler: the responses

\* handleMCP has returned
Answered(r) == hpc[r] = "done"

\* C21: Execute success gives 200, application/json and the output as body;
\* a failed body read gives 400 (and no Execute call); every Execute failure
\* gives 500.
C21_OutcomeToResponse ==
    \A r \in Requests : Answered(r) =>
        /\ (result[r].err = "none") =>
              (status[r] = 200 /\ contentType[r] = "application/json"
                 /\ respBody[r] = result[r].out)
        /\ (result[r].err \in ExecuteErrors) => status[r] = 500
        /\ (result[r] = NoResult) => status[r] = 400
        /\ status[r] \in {200, 400, 500}

C21_Witness ==
    /\ Answered("r1") /\ result["r1"] = [err |-> "none", out |-> <<"a">>]
    /\ status["r1"] = 200 /\ respBody["r1"] = <<"a">>
    /\ Answered("r2") /\ result["r2"].err = "process wait" /\ status["r2"] = 500

\* the response as the client sees it
Response(r) == <<status[r], contentType[r], respBody[r]>>

\* C22: any two requests answered with 500 got the same response, whatever
\* Execute reported.
C22_GenericFailureBody ==
    \A r, q \in Requests :
        (Answered(r) /\ Answered(q) /\ status[r] = 500 /\ status[q] = 500)
            => Response(r) = Response(q)

C22_Witness ==
    /\ Answered("r1") /\ Answered("r2")
    /\ result["r1"].err = "process wait" /\ result["r2"].err = "process start"
    /\ Response("r1") = Response("r2")
    /\ respBody["r1"] = <<"Process execution failed", LF>>

\* C23 (as stated): a handled request has started exactly one process.
C23_ExactlyOneProcess == \A r \in Requests : Answered(r) => spawns[r] = 1

\* C23 (amended): a request never starts more than one process and none
\* before Execute is called; it has started exactly one when Execute got past
\* cmd.Start(), and none when the body read failed or Execute failed in the
\* pipe set-up or in the start.
C23_AtMostOneProcess ==
    \A r \in Requests :
        /\ spawns[r] <= 1
        /\ ~Answered(r) => spawns[r] = 0
        /\ Answered(r) =>
              (spawns[r] = 1 <=>
                 (status[r] # 400 /\ result[r].err \notin SetupErrors \cup StartErrors))

\* a failure after the start: one process, no second try
C23_Witness ==
    /\ Answered("r1") /\ result["r1"].err = "write to stdin" /\ spawns["r1"] = 1
    /\ Answered("r2") /\ status["r2"] = 400 /\ spawns["r2"] = 0

\* the errors the handler expects from Execute are those Execute returns
ExecuteErrorsComplete == err \in ExecuteErrors \cup {"none"}

\* ------------------------------------------------- Execute: the two contexts

\* C24: the context of the subprocess is done exactly when the request's
\* context is done or the processing timeout has elapsed, and a child that
\* runs when it is done is killed.
C24_ContextBoundToRequest ==
    /\ [](ctxDone <=> (reqDone \/ deadline))
    /\ ((ctxDone /\ proc = "running") ~> (proc # "running"))

\* the client went away before the timeout and the child was killed
C24_Witness ==
    reqDone /\ ~deadline /\ ctxDone /\ killedInCall /\ proc \in {"zombie", "reaped"}

\* C30: a child that never reads its stdin, prints one line and exits 0
\* makes Execute succeed whenever the context does not end, however its exit
\* falls between the writes to its stdin.
C30_EchoAlwaysSucceeds ==
    (prog = EchoProg /\ Returned /\ ~ctxDone) =>
        (Succeeded /\ response = Fill(PipeCap - 1))

(***************************************************************************)
(* The header mapper by itself: ParseCustomHeaders (internal/headers) and  *)
(* Server.parseHeaders are the same two loops.                             *)
(***************************************************************************)

\* what a header of the call may carry; "" is an absent or empty header
HeaderValues == {"", "1", "2", "x=y"}

\* argument names of the arg mapping
MapperArgNames == {"k", "m"}

MapperInit ==
    /\ ExecuteOff /\ HandlerOff /\ MainOff /\ LifecycleOff
    /\ phHeaders \in [Headers -> HeaderValues]
    /\ phEnvMapping \in Maps(Headers, Names)
    /\ phArgMapping \in Maps(Headers, MapperArgNames)
    /\ phDone = FALSE
    /\ phEnv = <<>>
    /\ phArgs = <<>>

\* ParseCustomHeaders(headers, envMapping, argMapping)
ParseCustomHeaders ==
    /\ ~phDone
    /\ phEnv' \in ParseEnv(phHeaders, phEnvMapping)
    /\ phArgs' \in ParseArgs(phHeaders, phArgMapping)
    /\ phDone' = TRUE
    /\ UNCHANGED <<phHeaders, phEnvMapping, phArgMapping>>
    /\ UNCHANGED <<executeVars, handlerVars, mainVars, lifecycleVars>>

MapperNext == ParseCustomHeaders

MapperSpec == MapperInit /\ [][MapperNext]_vars

\* the mapped headers the call carries with a non-empty value
Carried(mapping) == {x \in Headers : x \in DOMAIN mapping /\ phHeaders[x] # ""}

\* C25 (as stated): after the call the overrides hold envName -> value for
\* every pair (headerName, envName) of the env mapping whose header carries a
\* non-empty value, and every entry comes from such a pair.
C25_OneEntryPerMappedHeader ==
    phDone =>
        /\ \A x \in Carried(phEnvMapping) :
              /\ phEnvMapping[x] \in DOMAIN phEnv
              /\ phEnv[phEnvMapping[x]] = phHeaders[x]
        /\ \A n \in DOMAIN phEnv : \E x \in Carried(phEnvMapping) :
              phEnvMapping[x] = n /\ phEnv[n] = phHeaders[x]

\* C25 (amended): after the call the overrides have exactly the env names of
\* the mapped headers that carry a non-empty value; each entry holds the value
\* of one such header mapped to its name, and of the only one when no other
\* carried header is mapped to the same name.
C25_EntriesFromCarriedHeaders ==
    phDone =>
        /\ DOMAIN phEnv = {phEnvMapping[x] : x \in Carried(phEnvMapping)}
        /\ \A n \in DOMAIN phEnv : \E x \in Carried(phEnvMapping) :
              phEnvMapping[x] = n /\ phEnv[n] = phHeaders[x]
        /\ \A x \in Carried(phEnvMapping) :
              (\A y \in Carried(phEnvMapping) \ {x} : phEnvMapping[y] # phEnvMapping[x])
                  => phEnv[phEnvMapping[x]] = phHeaders[x]

\* two headers mapped, one of them empty, a third value outside any entry
C25_Witness ==
    /\ phDone
    /\ DOMAIN phEnvMapping = Headers
    /\ phHeaders["X-A"] = "1" /\ phHeaders["X-B"] = ""
    /\ DOMAIN phEnv = {phEnvMapping["X-A"]}
    /\ phEnv[phEnvMapping["X-A"]] = "1"

\* positions of the flags in the returned argument list
FlagPositions == {i \in 1..Len(phArgs) : i % 2 = 1}

\* C26: after the call the argument list is made of adjacent pairs
\* ("--" + argName, value), one for each mapped header that carries a
\* non-empty value: its length is twice the number of such headers and every
\* flag is followed by the value of its header.
C26_FlagValuePairs ==
    phDone =>
        /\ Len(phArgs) = 2 * Cardinality(Carried(phArgMapping))
        /\ \A i \in FlagPositions : \E x \in Carried(phArgMapping) :
              /\ phArgs[i] = "--" \o phArgMapping[x]
              /\ phArgs[i + 1] = phHeaders[x]
        /\ \A x \in Carried(phArgMapping) : \E i \in FlagPositions :
              /\ phArgs[i] = "--" \o phArgMapping[x]
              /\ phArgs[i + 1] = phHeaders[x]

\* both headers carried and mapped to different names: two pairs
C26_Witness ==
    /\ phDone
    /\ Carried(phArgMapping) = Headers
    /\ phArgMapping["X-A"] # phArgMapping["X-B"]
    /\ phHeaders["X-A"] # phHeaders["X-B"]
    /\ Len(phArgs) = 4

(***************************************************************************)
(* Startup: main reads the flags, builds the configuration and starts the  *)
(* server (cmd/tumiki-mcp-http/main.go).  The tree holds the file with     *)
(* parseEnvVars / parseMapping ("lenient") and with parseKeyValuePairs     *)
(* ("strict").                                                             *)
(***************************************************************************)

DQ == "\""
SQ == "'"
SP == " "

\* a character of two bytes in UTF-8
Wide == "é"

\* characters of a --stdio string
CmdRunes == {"a", SP, SQ, DQ, Wide}

\* characters of a KEY=VALUE definition
PairRunes == {"a", "="}

\* sequences over S of at most n elements
SeqsUpTo(S, n) == UNION {[1..k -> S] : k \in 0..n}

StdioCmds == SeqsUpTo(CmdRunes, MaxCmdLen)

PairLists == SeqsUpTo(SeqsUpTo(PairRunes, MaxPairLen), MaxPairs)

FlagKinds == {"env", "header-env", "header-arg"}

\* utf8.RuneLen(r)
RuneLen(r) == IF r = Wide THEN 2 ELSE 1

RECURSIVE ByteLen(_)
\* len(s) of a Go string: bytes, not characters
ByteLen(s) == IF s = <<>> THEN 0 ELSE RuneLen(Head(s)) + ByteLen(Tail(s))

RECURSIVE ScanCmd(_, _, _, _, _, _, _)
\* the loop of parseStdioCommand from character k on; i is the byte offset of
\* character k, as in `for i, r := range stdioCmd`
ScanCmd(stdioCmdArg, k, i, parts, current, inQuote, quoteChar) ==
    IF k > Len(stdioCmdArg) THEN parts
    ELSE
        LET r == stdioCmdArg[k]
            isQuote == r \in {DQ, SQ}
            current1 ==
                IF isQuote
                THEN IF inQuote /\ r # quoteChar THEN Append(current, r) ELSE current
                ELSE IF r = SP
                     THEN IF inQuote THEN Append(current, r) ELSE <<>>
                     ELSE Append(current, r)
            parts1 ==
                IF r = SP /\ ~inQuote /\ Len(current) > 0
                THEN Append(parts, current) ELSE parts
            inQuote1 ==
                IF isQuote
                THEN IF ~inQuote THEN TRUE ELSE r # quoteChar
                ELSE inQuote
            quoteChar1 ==
                IF isQuote
                THEN IF ~inQuote THEN r ELSE IF r = quoteChar THEN "" ELSE quoteChar
                ELSE quoteChar
            parts2 ==
                IF i = ByteLen(stdioCmdArg) - 1 /\ Len(current1) > 0
                THEN Append(parts1, current1) ELSE parts1
        IN  ScanCmd(stdioCmdArg, k + 1, i + RuneLen(r), parts2, current1,
                    inQuote1, quoteChar1)

\* parseStdioCommand(stdioCmd)
parseStdioCommand(stdioCmdArg) == ScanCmd(stdioCmdArg, 1, 0, <<>>, <<>>, FALSE, "")

\* strings.Contains(s, "=")
ContainsEq(s) == \E i \in 1..Len(s) : s[i] = "="

\* strings.SplitN(pair, "=", 2)
SplitN2(pair) ==
    IF ~ContainsEq(pair) THEN <<pair>>
    ELSE LET i == CHOOSE j \in 1..Len(pair) :
                      pair[j] = "=" /\ \A l \in 1..(j - 1) : pair[l] # "="
         IN  <<SubSeq(pair, 1, i - 1), SubSeq(pair, i + 1, Len(pair))>>

\* result[k] = v
Put(m, k, v) == [x \in DOMAIN m \cup {k} |-> IF x = k THEN v ELSE m[x]]

\* Mutant: an entry without '=' is stored with an empty value.
Store_KeepMalformed(res, parts) ==
    IF Len(parts) = 2 THEN Put(res, parts[1], parts[2])
    ELSE Put(res, parts[1], <<>>)

\* if len(parts) == 2 { result[parts[0]] = parts[1] }
Store(res, parts) ==
    IF Len(parts) = 2 THEN Put(res, parts[1], parts[2]) ELSE res

RECURSIVE ParsePairs_StopAtMalformed(_, _, _, _)
\* Mutant: parsing stops at the first entry without '='.
ParsePairs_StopAtMalformed(pairList, i, res, checked) ==
    IF i > Len(pairList) THEN [err |-> FALSE, map |-> res]
    ELSE
        LET parts == SplitN2(pairList[i])
        IN  IF checked /\ Len(parts) = 2 /\ ContainsEq(parts[2])
            THEN [err |-> TRUE, map |-> <<>>]
            ELSE IF Len(parts) # 2 THEN [err |-> FALSE, map |-> res]
            ELSE ParsePairs_StopAtMalformed(pairList, i + 1, Store(res, parts), checked)

RECURSIVE ParsePairs(_, _, _, _)
\* the loop over pairs from entry i on; checked says whether the version
\* refuses '=' in the value
ParsePairs(pairList, i, res, checked) ==
    IF i > Len(pairList) THEN [err |-> FALSE, map |-> res]
    ELSE
        LET parts == SplitN2(pairList[i])
        IN  IF checked /\ Len(parts) = 2 /\ ContainsEq(parts[2])
            THEN [err |-> TRUE, map |-> <<>>]
            ELSE ParsePairs(pairList, i + 1, Store(res, parts), checked)

\* parseKeyValuePairs(pairs, valueType)
parseKeyValuePairs(pairList) == ParsePairs(pairList, 1, <<>>, TRUE)

\* parseEnvVars(envVars), parseMapping(mappings)
parseMapping(pairList) == ParsePairs(pairList, 1, <<>>, FALSE)

StartupInit ==
    /\ ExecuteOff /\ HandlerOff /\ MapperOff /\ LifecycleOff
    /\ mainVersion \in {"lenient", "strict"}
    /\ flagKind \in FlagKinds
    /\ \/ stdioCmd \in StdioCmds /\ pairs = <<>>
       \/ stdioCmd = <<"a">> /\ pairs \in PairLists
    /\ boot = "flags"
    /\ cmdParts = <<>>
    /\ kv = [err |-> FALSE, map |-> <<>>]

\* len(cmdParts) == 0
NoCommand(parts) == Len(parts) = 0

\* main: --stdio is required
MainUsage ==
    /\ boot = "flags"
    /\ stdioCmd = <<>>
    /\ boot' = "exit"
    /\ UNCHANGED <<mainVersion, stdioCmd, flagKind, pairs, cmdParts, kv>>
    /\ UNCHANGED <<executeVars, handlerVars, mapperVars, lifecycleVars>>

\* main: buildConfigFromFlags, then startServer
MainBuild ==
    /\ boot = "flags"
    /\ stdioCmd # <<>>
    /\ cmdParts' = parseStdioCommand(stdioCmd)
    /\ IF NoCommand(cmdParts')
       THEN /\ boot' = "fatal"
            /\ kv' = kv
       ELSE /\ kv' = IF mainVersion = "strict"
                     THEN parseKeyValuePairs(pairs) ELSE parseMapping(pairs)
            /\ boot' = IF kv'.err THEN "fatal" ELSE "serving"
    /\ UNCHANGED <<mainVersion, stdioCmd, flagKind, pairs>>
    /\ UNCHANGED <<executeVars, handlerVars, mapperVars, lifecycleVars>>

StartupNext == MainUsage \/ MainBuild

StartupSpec == StartupInit /\ [][StartupNext]_vars

\* main has finished with the flags
Booted == boot \in {"exit", "fatal", "serving"}

\* number of '=' in a definition
RECURSIVE CountEq(_)
CountEq(s) ==
    IF s = <<>> THEN 0
    ELSE (IF Head(s) = "=" THEN 1 ELSE 0) + CountEq(Tail(s))

\* C27: when some KEY=VALUE definition of --env, --header-env or
\* --header-arg has a value part that itself contains '=' (two or more '='
\* in the definition), building the configuration fails with an error and
\* produces no map, so the server is not started.
C27_EqualsInValueRejected ==
    (Booted /\ ~NoCommand(parseStdioCommand(stdioCmd))
        /\ \E i \in 1..Len(pairs) : CountEq(pairs[i]) >= 2)
    => (boot = "fatal" /\ kv.err /\ kv.map = <<>>)

\* C28 (as stated): a definition with no '=', or a missing or empty launch
\* command, is detected when the configuration is built and the server does
\* not start serving.
C28_MalformedPreventsServing ==
    (Booted /\ (\/ \E i \in 1..Len(pairs) : CountEq(pairs[i]) = 0
                \/ \A j \in 1..Len(stdioCmd) : stdioCmd[j] = SP))
    => boot # "serving"

\* keys of the definitions that have a '='
KeysDefined ==
    UNION {{SubSeq(pairs[i], 1, j - 1) :
                j \in {l \in 1..Len(pairs[i]) :
                          /\ pairs[i][l] = "="
                          /\ \A u \in 1..(l - 1) : pairs[i][u] # "="}} :
           i \in 1..Len(pairs)}

\* C28 (amended): a missing --stdio, or one made of spaces only, stops the
\* process before it serves; a definition with no '=' does not: it is left
\* out of the map (whose keys are those of the definitions that have a '=')
\* and does not by itself keep the server from serving.  With
\* parseKeyValuePairs the definition that does stop the process is the one
\* whose value contains '='.
C28_NoCommandPreventsServing ==
    Booted =>
        /\ (\A j \in 1..Len(stdioCmd) : stdioCmd[j] = SP) => boot \in {"exit", "fatal"}
        /\ boot = "serving" => DOMAIN kv.map = KeysDefined
        /\ (/\ \A j \in 1..Len(stdioCmd) : stdioCmd[j] = "a"
            /\ stdioCmd # <<>>
            /\ \A i \in 1..Len(pairs) : CountEq(pairs[i]) <= 1)
           => boot = "serving"
        /\ (/\ mainVersion = "strict"
            /\ ~NoCommand(parseStdioCommand(stdioCmd))
            /\ \E i \in 1..Len(pairs) : CountEq(pairs[i]) >= 2)
           => boot = "fatal"

\* serving with a definition that has no '=' next to a well-formed one
C28_Witness ==
    /\ boot = "serving"
    /\ Len(pairs) = 2
    /\ CountEq(pairs[1]) = 0 /\ pairs[1] # <<>>
    /\ CountEq(pairs[2]) = 1
    /\ DOMAIN kv.map = {SubSeq(pairs[2], 1, 1)}

(***************************************************************************)
(* Server.Start: a goroutine runs ListenAndServe and reports its error on  *)
(* errChan; Start waits for that error or for ctx.Done(), and then calls   *)
(* http.Server.Shutdown with a context of ShutdownTimeout.                 *)
(***************************************************************************)

LifecycleInit ==
    /\ ExecuteOff /\ HandlerOff /\ MainOff /\ MapperOff
    /\ startCtx = "live"
    /\ listener = "none"
    /\ inShutdown = FALSE
    /\ errChan = <<>>
    /\ startPc = "select"
    /\ startErr = "pending"
    /\ accepted = 0
    /\ inflight = 0
    /\ graceClock = 0

otherVars == <<executeVars, handlerVars, mainVars, mapperVars>>

\* s.server.ListenAndServe() binds the address and serves
Listen ==
    /\ listener = "none" /\ ~inShutdown
    /\ listener' = "open"
    /\ UNCHANGED <<startCtx, inShutdown, errChan, startPc, startErr, accepted,
                   inflight, graceClock>>
    /\ UNCHANGED otherVars

\* ListenAndServe fails (address in use) with err != http.ErrServerClosed
ListenFail ==
    /\ listener = "none" /\ ~inShutdown
    /\ listener' = "failed"
    /\ UNCHANGED <<startCtx, inShutdown, errChan, startPc, startErr, accepted,
                   inflight, graceClock>>
    /\ UNCHANGED otherVars

\* Mutant: errChan has no buffer, the send needs Start to be receiving.
SendErr_Unbuffered ==
    /\ listener = "failed"
    /\ startPc = "select"
    /\ listener' = "reported"
    /\ startErr' = "listen"
    /\ startPc' = "returned"
    /\ UNCHANGED <<startCtx, inShutdown, errChan, accepted, inflight, graceClock>>
    /\ UNCHANGED otherVars

\* errChan <- err: goes through when the buffer has room
SendErr ==
    /\ listener = "failed"
    /\ Len(errChan) < ErrChanCap
    /\ errChan' = Append(errChan, "listen")
    /\ listener' = "reported"
    /\ UNCHANGED <<startCtx, inShutdown, startPc, startErr, accepted, inflight,
                   graceClock>>
    /\ UNCHANGED otherVars

\* ListenAndServe after Shutdown: http.ErrServerClosed, nothing is sent
ListenClosed ==
    /\ listener = "none" /\ inShutdown
    /\ listener' = "closed"
    /\ UNCHANGED <<startCtx, inShutdown, errChan, startPc, startErr, accepted,
                   inflight, graceClock>>
    /\ UNCHANGED otherVars

\* the caller cancels ctx
CancelStart ==
    /\ startPc # "off"
    /\ startCtx = "live"
    /\ startCtx' = "cancelled"
    /\ UNCHANGED <<listener, inShutdown, errChan, startPc, startErr, accepted,
                   inflight, graceClock>>
    /\ UNCHANGED otherVars

\* a connection is accepted and its request handed to handleMCP
AcceptRequest ==
    /\ listener = "open"
    /\ accepted < MaxRequests
    /\ accepted' = accepted + 1
    /\ inflight' = inflight + 1
    /\ UNCHANGED <<startCtx, listener, inShutdown, errChan, startPc, startErr,
                   graceClock>>
    /\ UNCHANGED otherVars

\* handleMCP returns
FinishRequest ==
    /\ inflight > 0
    /\ inflight' = inflight - 1
    /\ UNCHANGED <<startCtx, listener, inShutdown, errChan, startPc, startErr,
                   accepted, graceClock>>
    /\ UNCHANGED otherVars

\* case err := <-errChan: return err
SelectErr ==
    /\ startPc = "select"
    /\ errChan # <<>>
    /\ startErr' = Head(errChan)
    /\ errChan' = Tail(errChan)
    /\ startPc' = "returned"
    /\ UNCHANGED <<startCtx, listener, inShutdown, accepted, inflight, graceClock>>
    /\ UNCHANGED otherVars

\* Mutant: the listeners stay open during Shutdown.
SelectDone_KeepListening ==
    /\ startPc = "select"
    /\ startCtx = "cancelled"
    /\ startPc' = "shutdown"
    /\ inShutdown' = TRUE
    /\ UNCHANGED <<startCtx, listener, errChan, startErr, accepted, inflight,
                   graceClock>>
    /\ UNCHANGED otherVars

\* case <-ctx.Done(): s.server.Shutdown(shutdownCtx) is entered: it marks the
\* server as shutting down and closes the listeners
SelectDone ==
    /\ startPc = "select"
    /\ startCtx = "cancelled"
    /\ startPc' = "shutdown"
    /\ inShutdown' = TRUE
    /\ listener' = IF listener = "open" THEN "closed" ELSE listener
    /\ UNCHANGED <<startCtx, errChan, startErr, accepted, inflight, graceClock>>
    /\ UNCHANGED otherVars

\* Shutdown finds every connection idle: return nil
ShutdownIdle ==
    /\ startPc = "shutdown"
    /\ inflight = 0
    /\ startErr' = "nil"
    /\ startPc' = "returned"
    /\ UNCHANGED <<startCtx, listener, inShutdown, errChan, accepted, inflight,
                   graceClock>>
    /\ UNCHANGED otherVars

\* Shutdown waits for the next poll while a request is running
ShutdownWait ==
    /\ startPc = "shutdown"
    /\ inflight > 0
    /\ graceClock < ShutdownTimeout
    /\ graceClock' = graceClock + 1
    /\ UNCHANGED <<startCtx, listener, inShutdown, errChan, startPc, startErr,
                   accepted, inflight>>
    /\ UNCHANGED otherVars

\* shutdownCtx expires while a request is still running: return ctx.Err()
ShutdownDeadline ==
    /\ startPc = "shutdown"
    /\ inflight > 0
    /\ graceClock = ShutdownTimeout
    /\ startErr' = "deadline exceeded"
    /\ startPc' = "returned"
    /\ UNCHANGED <<startCtx, listener, inShutdown, errChan, accepted, inflight,
                   graceClock>>
    /\ UNCHANGED otherVars

\* the goroutine of Start
ServeStep == Listen \/ ListenFail \/ SendErr \/ ListenClosed

\* Start itself
StartStep ==
    SelectErr \/ SelectDone \/ ShutdownIdle \/ ShutdownWait \/ ShutdownDeadline

LifecycleNext ==
    \/ Listen \/ ListenFail \/ SendErr \/ ListenClosed
    \/ CancelStart
    \/ AcceptRequest \/ FinishRequest
    \/ SelectErr \/ SelectDone \/ ShutdownIdle \/ ShutdownWait \/ ShutdownDeadline

\* Start and the goroutine are scheduled; Shutdown ends by idleness or by its
\* deadline; a cancellation is not required to come
LifecycleSpec ==
    /\ LifecycleInit
    /\ [][LifecycleNext]_vars
    /\ WF_vars(ServeStep)
    /\ WF_vars(StartStep)

Phase ==
    IF startPc = "returned" THEN "stopped"
    ELSE IF startPc = "shutdown" THEN "shutting-down"
    ELSE IF listener = "open" THEN "serving"
    ELSE "starting"

Rank(ph) ==
    IF ph = "starting" THEN 1
    ELSE IF ph = "serving" THEN 2
    ELSE IF ph = "shutting-down" THEN 3
    ELSE 4

\* C29: the phase of the server never moves backwards through starting,
\* serving, shutting-down, stopped (so serving is never re-entered); once
\* Shutdown has begun no listener is open and no request is accepted; after
\* ctx is cancelled Start eventually returns, having waited no longer than
\* ShutdownTimeout, and it returns nil unless a request was still running
\* when the grace period ran out.
C29_LifecycleForward ==
    /\ [][Rank(Phase') >= Rank(Phase)]_vars
    /\ [](inShutdown => listener # "open")
    /\ [][inShutdown => accepted' = accepted]_vars
    /\ (startCtx = "cancelled") ~> (startPc = "returned")
    /\ [](graceClock <= ShutdownTimeout)
    /\ []((startPc = "returned" /\ inShutdown /\ startErr # "nil")
            => (graceClock = ShutdownTimeout /\ startErr = "deadline exceeded"))

\* served requests, was cancelled with one in flight, waited for it less than
\* the grace period and returned nil
C29_Witness ==
    /\ startPc = "returned"
    /\ startCtx = "cancelled"
    /\ startErr = "nil"
    /\ listener = "closed"
    /\ accepted = MaxRequests
    /\ inflight = 0
    /\ graceClock > 0 /\ graceClock < ShutdownTimeout

\* C31: with the arg mapping {X-A -> k, X-B -> m} and both headers carried
\* (values 1 and 2) the mapper returns exactly [--k, 1, --m, 2], the pairs in
\* that order on every call.
C31_ArgsDeterministic ==
    (/\ phDone
     /\ DOMAIN phArgMapping = Headers
     /\ phArgMapping["X-A"] = "k" /\ phArgMapping["X-B"] = "m"
     /\ phHeaders["X-A"] = "1" /\ phHeaders["X-B"] = "2")
    => phArgs = <<"--k", "1", "--m", "2">>

RECURSIVE Classes(_, _, _)
\* what each character of a command line is: "quote" for a quote character
\* that opens or closes a quoted section, "sep" for a space outside quotes,
\* "keep" for everything else
Classes(s, inQ, qc) ==
    IF s = <<>> THEN <<>>
    ELSE LET r == Head(s)
         IN  IF r \in {DQ, SQ} /\ ~inQ THEN <<"quote">> \o Classes(Tail(s), TRUE, r)
             ELSE IF r \in {DQ, SQ} /\ r = qc THEN <<"quote">> \o Classes(Tail(s), FALSE, "")
             ELSE IF r = SP /\ ~inQ THEN <<"sep">> \o Classes(Tail(s), inQ, qc)
             ELSE <<"keep">> \o Classes(Tail(s), inQ, qc)

RECURSIVE Pieces(_, _, _, _)
\* the non-empty runs of kept characters between separators, from position k
Pieces(s, cls, k, cur) ==
    LET flush == IF cur = <<>> THEN <<>> ELSE <<cur>>
    IN  IF k > Len(s) THEN flush
        ELSE IF cls[k] = "sep" THEN flush \o Pieces(s, cls, k + 1, <<>>)
        ELSE IF cls[k] = "quote" THEN Pieces(s, cls, k + 1, cur)
        ELSE Pieces(s, cls, k + 1, Append(cur, s[k]))

\* the words of a command line
Words(s) == Pieces(s, Classes(s, FALSE, ""), 1, <<>>)

\* the kept characters of a command line
Kept(s) ==
    LET cls == Classes(s, FALSE, "")
        keptAt == {k \in 1..Len(s) : cls[k] = "keep"}
        RECURSIVE Pick(_)
        Pick(k) == IF k > Len(s) THEN <<>>
                   ELSE (IF k \in keptAt THEN <<s[k]>> ELSE <<>>) \o Pick(k + 1)
    IN  Pick(1)

RECURSIVE Flatten(_)
\* the tokens one after the other
Flatten(tokens) ==
    IF tokens = <<>> THEN <<>> ELSE Head(tokens) \o Flatten(Tail(tokens))

\* buildConfigFromFlags has called parseStdioCommand
Parsed == boot \in {"fatal", "serving"}

\* C32: the tokens returned for a command line are its words: it is cut at
\* every run of spaces outside quotes, spaces inside a quoted section and
\* quote characters of the other kind are kept, the delimiting quotes are
\* removed, no token is empty, and the empty string gives no token.
C32_SplitsIntoWords ==
    /\ Parsed =>
          /\ cmdParts = Words(stdioCmd)
          /\ \A i \in 1..Len(cmdParts) : cmdParts[i] # <<>>
    /\ parseStdioCommand(<<>>) = <<>>

\* C33: the tokens returned, one after the other, are the command line
\* without its unquoted spaces and delimiting quotes, whatever the byte
\* length of its last character.
C33_NoCharacterLost ==
    Parsed => Flatten(cmdParts) = Kept(stdioCmd)

\* position of the first '=' of a definition that has one
FirstEq(p) == CHOOSE j \in 1..Len(p) : p[j] = "=" /\ \A l \in 1..(j - 1) : p[l] # "="

KeyOf(p) == SubSeq(p, 1, FirstEq(p) - 1)

ValueOf(p) == SubSeq(p, FirstEq(p) + 1, Len(p))

\* the definitions have been parsed
PairsParsed == Parsed /\ ~NoCommand(cmdParts)

\* C34: an entry without '=' never causes an error and adds no entry to the
\* map; the entries of the same list that have a '=' are all in the map, the
\* last definition of a key giving its value; an empty list gives an empty
\* map.
C34_NoEqualsSkipped ==
    PairsParsed =>
        /\ kv.err => \E i \in 1..Len(pairs) : CountEq(pairs[i]) >= 2
        /\ ~kv.err =>
              /\ \A i \in 1..Len(pairs) :
                    CountEq(pairs[i]) >= 1 =>
                        /\ KeyOf(pairs[i]) \in DOMAIN kv.map
                        /\ (\A l \in (i + 1)..Len(pairs) :
                                CountEq(pairs[l]) = 0 \/ KeyOf(pairs[l]) # KeyOf(pairs[i]))
                            => kv.map[KeyOf(pairs[i])] = ValueOf(pairs[i])
              /\ \A k \in DOMAIN kv.map : \E i \in 1..Len(pairs) :
                    CountEq(pairs[i]) >= 1 /\ KeyOf(pairs[i]) = k
        /\ pairs = <<>> => (~kv.err /\ kv.map = <<>>)

\* a definition followed by an entry without '=': only the first is in the map
C34_Witness ==
    /\ PairsParsed /\ ~kv.err
    /\ Len(pairs) = 2
    /\ CountEq(pairs[1]) = 1 /\ Len(pairs[1]) = MaxPairLen
    /\ CountEq(pairs[2]) = 0 /\ pairs[2] # <<>>
    /\ DOMAIN kv.map = {KeyOf(pairs[1])}
    /\ kv.map[KeyOf(pairs[1])] = ValueOf(pairs[1])

\* C35: a request whose handler has finished has one response, with status
\* 200, 400 or 500, and none before; once the status is written neither it
\* nor the body changes; and 200 is written only when Execute returned
\* without error.
C35_OneResponse ==
    /\ [](\A r \in Requests :
            /\ Answered(r) => status[r] \in {200, 400, 500}
            /\ ~Answered(r) => status[r] = 0
            /\ status[r] = 200 => result[r].err = "none")
    /\ [][\A r \in Requests :
            status[r] # 0 => /\ status'[r] = status[r]
                             /\ contentType'[r] = contentType[r]
                             /\ respBody'[r] = respBody[r]]_vars

\* the two requests answered differently, one of them without calling Execute
C35_Witness ==
    /\ Answered("r1") /\ Answered("r2")
    /\ status["r1"] = 400 /\ result["r1"] = NoResult
    /\ status["r2"] = 200 /\ result["r2"].err = "none"

\* the child has exited with status 0 and never wrote to its stdout
ExitedSilently == proc \in {"zombie", "reaped"} /\ exitOK /\ childOut = <<>>

\* C36: when the child has exited with status 0 without writing a byte to
\* stdout and the context is not done, the call that has returned has
\* succeeded, with an empty output.
C36_SilentExitSucceeds ==
    (Returned /\ ExitedSilently /\ ~ctxDone /\ pipeFail = 0)
        => (Succeeded /\ response = <<>>)

\* ListenAndServe has failed
ListenerFailed == listener \in {"failed", "reported"}

\* C37 (as stated): when the listener has failed while ctx is not cancelled,
\* Start returns that error.
C37_FailureAlwaysReturned ==
    (ListenerFailed /\ startCtx = "live") ~> (startPc = "returned" /\ startErr = "listen")

\* C37 (amended): a failed listener makes Start return whether or not ctx is
\* ever cancelled, and with that error whenever Start did not take the
\* cancellation; Start returns once, its result never changing; and the
\* goroutine's send of the error always completes.
C37_FailureReturnsOnce ==
    /\ ListenerFailed ~> (startPc = "returned")
    /\ []((startPc = "returned" /\ ~inShutdown)
            => (startErr = "listen" /\ listener = "reported"))
    /\ []((startPc = "returned" /\ startCtx = "live") => startErr = "listen")
    /\ [][startPc = "returned" => (startPc' = "returned" /\ startErr' = startErr)]_vars
    /\ (listener = "failed") ~> (listener = "reported")
    /\ [](Len(errChan) <= ErrChanCap)

\* the listener failed and Start returned its error, ctx never cancelled
C37_Witness ==
    /\ startPc = "returned"
    /\ startErr = "listen"
    /\ listener = "reported"
    /\ startCtx = "live"
    /\ errChan = <<>>

====
